---- MODULE Spec2Model ----
(***************************************************************************)
(* The entity-linking annotation tool of main.py: the Annotator command    *)
(* loop and its handlers, over the Corpus and the LinkAnnotations store.    *)
(*                                                                         *)
(* Strings that the code inspects (links, the argument of the fix command) *)
(* are sequences of characters.  The character "W" stands for the fixed    *)
(* prefix https://en.wikipedia.org/wiki/ and "H" for the scheme of any     *)
(* other URL.  An optional value (Python's None or a value) is a sequence  *)
(* of length 0 or 1.                                                       *)
(***************************************************************************)
EXTENDS Integers, Sequences, FiniteSets, TLC

\* Bounds of the model.
MaxTypes == 2
MaxFix == 1
WideTypes == 5
MaxLen == 3

\* The files of the corpus, in the order Corpus.get_files() lists them.
Files == 1..3

\* The surface texts of the corpus, in the order a document lists them.
Texts == <<"A", "B">>

None == <<>>
Some(x) == <<x>>

\* The links after normalisation: the empty-link sentinel and two URLs.
EmptyLink == <<>>
WikiJL == <<"W", "J", "_", "L">>
OtherURL == <<"H", "x">>

\* What the user can type as a link.
RawLinks == {<<"-">>, <<"J", " ", "L">>, WikiJL}

Range(f) == {f[i] : i \in DOMAIN f}

----------------------------------------------------------------------------
(* model.py, LinkAnnotations.normalize_link *)

RECURSIVE Underscored(_)
Underscored(s) ==
    IF s = <<>> THEN <<>>
    ELSE <<IF Head(s) = " " THEN "_" ELSE Head(s)>> \o Underscored(Tail(s))

\* Mutant: the base URL is put before every link that is not empty, a full
\* URL too.
normalize_link_prefixing(raw) ==
    IF raw = <<>> \/ raw = <<"-">> THEN EmptyLink
    ELSE <<"W">> \o Underscored(raw)

normalize_link(raw) ==
    IF raw = <<>> \/ raw = <<"-">> THEN EmptyLink
    ELSE IF Head(raw) \in {"W", "H"} THEN raw
    ELSE <<"W">> \o Underscored(raw)

----------------------------------------------------------------------------
(* main.py, Annotator.validate_link.  exists is what the request to the    *)
(* link answers: TRUE for status code 200.                                  *)

\* Mutant: the request is made for the empty link too.
validate_link_asking(link, exists) == exists

validate_link(link, exists) ==
    IF link = <<>> THEN TRUE ELSE exists

----------------------------------------------------------------------------
(* main.py, Annotator.suggest_link *)

\* The list suggestions: one link per file whose data holds the text with a
\* link that is not None, in the order of the files.
RECURSIVE Suggestions(_, _, _)
Suggestions(data, entity_text, f) ==
    IF f > Len(data) THEN <<>>
    ELSE (IF entity_text \in DOMAIN data[f] /\ data[f][entity_text] # None
          THEN <<data[f][entity_text][1]>> ELSE <<>>)
         \o Suggestions(data, entity_text, f + 1)

Count(seq, x) == Cardinality({i \in DOMAIN seq : seq[i] = x})

\* collections.Counter(suggestions): its keys, in order of first insertion.
RECURSIVE CounterKeys(_)
CounterKeys(seq) ==
    IF seq = <<>> THEN <<>>
    ELSE LET front == SubSeq(seq, 1, Len(seq) - 1)
             keys == CounterKeys(front)
         IN IF seq[Len(seq)] \in Range(keys) THEN keys ELSE Append(keys, seq[Len(seq)])

\* most_common()[0][0]: the keys sorted by count, largest first, with a
\* stable sort; the first of them is the first key that no earlier key
\* equals or beats and no later key beats.
RECURSIVE BestKey(_, _, _)
BestKey(seq, keys, best) ==
    IF keys = <<>> THEN best
    ELSE BestKey(seq, Tail(keys),
                 IF Count(seq, Head(keys)) > Count(seq, best) THEN Head(keys) ELSE best)

\* Mutant: among equally frequent links the last one met wins.
RECURSIVE BestKeyLast(_, _, _)
BestKeyLast(seq, keys, best) ==
    IF keys = <<>> THEN best
    ELSE BestKeyLast(seq, Tail(keys),
                     IF Count(seq, Head(keys)) >= Count(seq, best) THEN Head(keys) ELSE best)

MostCommonLast(seq) ==
    LET keys == CounterKeys(seq) IN BestKeyLast(seq, Tail(keys), Head(keys))

MostCommonFirst(seq) ==
    LET keys == CounterKeys(seq) IN BestKey(seq, Tail(keys), Head(keys))

suggest_link(data, entity_text) ==
    LET suggestions == Suggestions(data, entity_text, 1)
    IN IF suggestions = <<>> THEN None ELSE Some(MostCommonFirst(suggestions))

----------------------------------------------------------------------------
(* The state of the program.                                               *)
(*   data            per file, the dictionary from surface text to the     *)
(*                   link of that file's entity type (None: not annotated) *)
(*   cursor          how many entity types Corpus.next() has passed        *)
(*   store           the saved annotation records, in file order           *)
(*   next_entity     the current entity type <<file, text>>, or None       *)
(*   link_suggestion the suggested link, or None                           *)
(*   context_size    config.CONTEXT_SIZE                                   *)
(*   pc              "start", "running", "quit" or "crashed"               *)
(*   out             what the last command printed or raised               *)
(*   visited         history: the entity types action_print_next showed    *)
(*   todo0           history: the entity types outstanding at the start    *)
(*   validated       history: the links validate_link has accepted         *)

VARIABLES data, cursor, store, next_entity, link_suggestion, context_size,
          pc, out, visited, todo0, validated

vars == <<data, cursor, store, next_entity, link_suggestion, context_size,
          pc, out, visited, todo0, validated>>

Cur == [data |-> data, cursor |-> cursor, store |-> store,
        next_entity |-> next_entity, link_suggestion |-> link_suggestion,
        context_size |-> context_size, pc |-> pc, out |-> out,
        visited |-> visited, validated |-> validated]

Becomes(s) ==
    /\ data' = s.data
    /\ cursor' = s.cursor
    /\ store' = s.store
    /\ next_entity' = s.next_entity
    /\ link_suggestion' = s.link_suggestion
    /\ context_size' = s.context_size
    /\ pc' = s.pc
    /\ out' = s.out
    /\ visited' = s.visited
    /\ validated' = s.validated
    /\ todo0' = todo0

\* Nothing printed, nothing raised.
Quiet == [warning |-> "", link |-> <<>>, exc |-> "", percent |-> -1]

(* main.py, Warnings and Annotator.print_warning *)
print_warning(s, message, link) ==
    [s EXCEPT !.out.warning = message, !.out.link = link]

\* An exception that no handler catches ends loop().
Raise(s, exc) == [s EXCEPT !.pc = "crashed", !.out.exc = exc]

----------------------------------------------------------------------------
(* Python's str(n) and int(s) for integers, and str.strip() *)

DigitChars == <<"0", "1", "2", "3", "4", "5", "6", "7", "8", "9">>

DigitVal(c) == (CHOOSE i \in DOMAIN DigitChars : DigitChars[i] = c) - 1

RECURSIVE NatToStr(_)
NatToStr(n) ==
    IF n < 10 THEN <<DigitChars[n + 1]>>
    ELSE Append(NatToStr(n \div 10), DigitChars[(n % 10) + 1])

IntToStr(n) == IF n < 0 THEN <<"-">> \o NatToStr(0 - n) ELSE NatToStr(n)

AllDigits(str) == str # <<>> /\ \A i \in DOMAIN str : str[i] \in Range(DigitChars)

\* Whether int(str) succeeds (else it raises ValueError).
IsInt(str) ==
    \/ AllDigits(str)
    \/ str # <<>> /\ Head(str) = "-" /\ AllDigits(Tail(str))

RECURSIVE StrToNat(_)
StrToNat(str) ==
    IF str = <<>> THEN 0
    ELSE 10 * StrToNat(SubSeq(str, 1, Len(str) - 1)) + DigitVal(str[Len(str)])

StrToInt(str) == IF Head(str) = "-" THEN 0 - StrToNat(Tail(str)) ELSE StrToNat(str)

RECURSIVE LStrip(_)
LStrip(str) == IF str # <<>> /\ Head(str) = " " THEN LStrip(Tail(str)) ELSE str

RECURSIVE RStrip(_)
RStrip(str) ==
    IF str # <<>> /\ str[Len(str)] = " " THEN RStrip(SubSeq(str, 1, Len(str) - 1)) ELSE str

Strip(str) == RStrip(LStrip(str))

StartsWith(str, prefix) ==
    Len(str) >= Len(prefix) /\ SubSeq(str, 1, Len(prefix)) = prefix

\* str[n:]
From(str, n) == SubSeq(str, n + 1, Len(str))

----------------------------------------------------------------------------
(* model.py, Corpus: the traversal.  The entity types are taken file by    *)
(* file and, within a file, in the order of Texts; the ones that already   *)
(* have a record in the store are skipped.                                 *)

NumSlots(d) == Len(d) * Len(Texts)
SlotFile(i) == ((i - 1) \div Len(Texts)) + 1
SlotText(i) == Texts[((i - 1) % Len(Texts)) + 1]
Slot(i) == <<SlotFile(i), SlotText(i)>>

EntityTypes(d) == {e \in (1..Len(d)) \X Range(Texts) : e[2] \in DOMAIN d[e[1]]}

Annotated(st, e) == \E k \in DOMAIN st : st[k].file = e[1] /\ st[k].text = e[2]

Outstanding(d, st) == {e \in EntityTypes(d) : ~Annotated(st, e)}

\* Corpus.next(): the first outstanding entity type after the cursor, or the
\* terminal signal (found = FALSE).
CorpusNext(s) ==
    LET ahead == {i \in (s.cursor + 1)..NumSlots(s.data) :
                     Slot(i) \in Outstanding(s.data, s.store)}
    IN IF ahead = {} THEN [found |-> FALSE, entity |-> <<0, "">>, cursor |-> s.cursor]
       ELSE LET i == CHOOSE k \in ahead : \A j \in ahead : k <= j
            IN [found |-> TRUE, entity |-> Slot(i), cursor |-> i]

----------------------------------------------------------------------------
(* model.py, LinkAnnotations: the store *)

RECURSIVE MaxId(_)
MaxId(st) ==
    IF st = <<>> THEN 0
    ELSE LET m == MaxId(Tail(st)) IN IF Head(st).id > m THEN Head(st).id ELSE m

\* The next unique identifier.
NextId(st) == MaxId(st) + 1

\* save_annotation(record): one record appended to the file.
save_annotation(s, record) == [s EXCEPT !.store = Append(@, record)]

\* add_link(entity, link): one new record for the entity type, with the next
\* identifier and the normalised link.
add_link(s, entity, link) ==
    save_annotation(s, [id |-> NextId(s.store), file |-> entity[1],
                        text |-> entity[2], link |-> normalize_link(link)])

\* get_annotation(identifier): the records with that identifier (none: the
\* lookup fails).
get_annotation(s, identifier) ==
    {k \in DOMAIN s.store : s.store[k].id = identifier}

\* create_link(link, annotation=old): the fields of a replacement record, the
\* old one's with the new link and a fresh identifier; nothing is saved.
create_link(s, link, old) ==
    <<NextId(s.store), old.file, old.text, link>>

\* LinkAnnotation(line): the record of a tab-separated line.
RECURSIVE SplitTabs(_)
SplitTabs(line) ==
    IF \A i \in DOMAIN line : line[i] # "\t" THEN <<line>>
    ELSE LET i == CHOOSE k \in DOMAIN line :
                      line[k] = "\t" /\ \A j \in 1..(k - 1) : line[j] # "\t"
         IN <<SubSeq(line, 1, i - 1)>> \o SplitTabs(SubSeq(line, i + 1, Len(line)))

LinkAnnotation(line) ==
    LET fields == SplitTabs(line)
    IN [id |-> StrToInt(fields[1]), file |-> StrToInt(fields[2]),
        text |-> fields[3][1], link |-> fields[4]]

----------------------------------------------------------------------------
(* model.py, CorpusFile.status: (total types, types done, percent done),   *)
(* with 0 percent for a file without entity types.                         *)

TypesDone(d, f) == Cardinality({t \in DOMAIN d[f] : d[f][t] # None})

FileStatus(d, f) ==
    LET total == Cardinality(DOMAIN d[f])
        done == TypesDone(d, f)
    IN <<total, done, IF total = 0 THEN 0 ELSE (100 * done) \div total>>

RECURSIVE SumTo(_, _, _)
SumTo(d, f, k) == IF f = 0 THEN 0 ELSE SumTo(d, f - 1, k) + FileStatus(d, f)[k]

\* Python's round(num / den * 100) for 0 <= num <= den, den > 0: to the
\* nearest integer, a half to the even one.
RoundPercent(num, den) ==
    LET q == (100 * num) \div den
        r == (100 * num) % den
    IN IF 2 * r < den THEN q
       ELSE IF 2 * r > den THEN q + 1
       ELSE IF q % 2 = 0 THEN q ELSE q + 1

\* Mutant: status() walks the traversal to count and leaves the cursor on
\* the entity type it met.
status_walking(s) ==
    LET corpus_types == SumTo(s.data, Len(s.data), 1)
        corpus_types_done == SumTo(s.data, Len(s.data), 2)
    IN IF corpus_types = 0 THEN Raise(s, "ZeroDivisionError")
       ELSE [s EXCEPT !.out.percent = RoundPercent(corpus_types_done, corpus_types),
                      !.cursor = CorpusNext(s).cursor]

(* main.py, Annotator.status *)
status(s) ==
    LET corpus_types == SumTo(s.data, Len(s.data), 1)
        corpus_types_done == SumTo(s.data, Len(s.data), 2)
    IN IF corpus_types = 0 THEN Raise(s, "ZeroDivisionError")
       ELSE [s EXCEPT !.out.percent = RoundPercent(corpus_types_done, corpus_types)]

----------------------------------------------------------------------------
(* main.py, the handlers of the Annotator *)

\* Mutant: corpus.next() is called twice and the second entity is shown.
action_print_next_twice(s) ==
    LET r1 == CorpusNext(s)
        r == IF r1.found THEN CorpusNext([s EXCEPT !.cursor = r1.cursor]) ELSE r1
    IN IF ~r.found
       THEN Raise(s, "TerminalSignal")
       ELSE [s EXCEPT !.cursor = r.cursor,
                      !.next_entity = Some(r.entity),
                      !.visited = Append(@, r.entity),
                      !.link_suggestion = suggest_link(s.data, r.entity[2])]

\* Mutant: the next entity is shown with the suggestion left from the
\* entity before it.
action_print_next_stale(s) ==
    LET r == CorpusNext(s)
    IN IF ~r.found
       THEN Raise(s, "TerminalSignal")
       ELSE [s EXCEPT !.cursor = r.cursor,
                      !.next_entity = Some(r.entity),
                      !.visited = Append(@, r.entity)]

action_print_next(s) ==
    LET r == CorpusNext(s)
    IN IF ~r.found
       THEN \* self.next_entity.text() on the terminal signal
            Raise(s, "TerminalSignal")
       ELSE [s EXCEPT !.cursor = r.cursor,
                      !.next_entity = Some(r.entity),
                      !.visited = Append(@, r.entity),
                      !.link_suggestion = suggest_link(s.data, r.entity[2])]

\* self.next_entity.link = link
SetEntityLink(s, link) ==
    LET e == s.next_entity[1]
    IN [s EXCEPT !.data[e[1]][e[2]] = Some(link)]

\* Mutant: the test for a current entity is missing when there is no
\* suggestion.
action_accept_hint_unguarded(s) ==
    IF s.link_suggestion = None
    THEN action_print_next(print_warning(s, "NO_LINK_SUGGESTION", <<>>))
    ELSE IF s.next_entity = None
    THEN print_warning(s, "NO_ENTITY", <<>>)
    ELSE action_print_next(
             add_link(SetEntityLink(s, s.link_suggestion[1]),
                      s.next_entity[1], s.link_suggestion[1]))

action_accept_hint(s) ==
    IF s.next_entity = None
    THEN print_warning(s, "NO_ENTITY", <<>>)
    ELSE IF s.link_suggestion = None
    THEN action_print_next(print_warning(s, "NO_LINK_SUGGESTION", <<>>))
    ELSE action_print_next(
             add_link(SetEntityLink(s, s.link_suggestion[1]),
                      s.next_entity[1], s.link_suggestion[1]))

\* validate_link(link) answered True: history only.
Accepted(s, link) == [s EXCEPT !.validated = @ \cup {link}]

\* Mutant: the link is stored without asking validate_link.
action_store_link_unchecked(s, raw, exists) ==
    LET link == normalize_link(raw)
    IN IF s.next_entity # None
       THEN action_print_next(
                add_link(SetEntityLink(s, link), s.next_entity[1], link))
       ELSE print_warning(s, "NO_ENTITY", <<>>)

\* Mutant: the record is saved but the link is not set on the entity.
action_store_link_unset(s, raw, exists) ==
    LET link == normalize_link(raw)
    IN IF s.next_entity # None
       THEN IF validate_link(link, exists)
            THEN action_print_next(
                     add_link(Accepted(s, link), s.next_entity[1], link))
            ELSE action_print_next(print_warning(s, "NOT_IN_WIKIPEDIA", link))
       ELSE print_warning(s, "NO_ENTITY", <<>>)

action_store_link(s, raw, exists) ==
    LET link == normalize_link(raw)
    IN IF s.next_entity # None
       THEN IF validate_link(link, exists)
            THEN action_print_next(
                     add_link(SetEntityLink(Accepted(s, link), link),
                              s.next_entity[1], link))
            ELSE action_print_next(print_warning(s, "NOT_IN_WIKIPEDIA", link))
       ELSE print_warning(s, "NO_ENTITY", <<>>)

\* '\t'.join([str(f) for f in new_annotation])
JoinFields(fields) ==
    IntToStr(fields[1]) \o <<"\t">> \o IntToStr(fields[2]) \o <<"\t">>
    \o <<fields[3]>> \o <<"\t">> \o fields[4]

\* Mutants of action_fix_link.  In place: the corrected record is rewritten
\* where it stands.  Same id: the new record keeps the identifier of the
\* corrected one.
SaveInPlace(s, k, fields) ==
    [s EXCEPT !.store[k] = LinkAnnotation(JoinFields(fields))]

SaveSameId(s, k, fields) ==
    save_annotation(s, LinkAnnotation(JoinFields(
        <<s.store[k].id, fields[2], fields[3], fields[4]>>)))

FixWith(s, identifier_and_link, exists, in_place) ==
    LET spaces == {i \in DOMAIN identifier_and_link : identifier_and_link[i] = " "}
    IN IF spaces = {}
       THEN Raise(s, "ValueError")
       ELSE LET i == CHOOSE k \in spaces : \A j \in spaces : k <= j
                identifier == SubSeq(identifier_and_link, 1, i - 1)
                link == normalize_link(From(identifier_and_link, i))
            IN IF ~IsInt(identifier)
               THEN Raise(s, "ValueError")
               ELSE IF validate_link(link, exists)
               THEN LET s1 == Accepted(s, link)
                        found == get_annotation(s1, StrToInt(identifier))
                    IN IF found = {}
                       THEN Raise(s1, "NotFound")
                       ELSE LET k == CHOOSE n \in found : TRUE
                                fields == create_link(s1, link, s1.store[k])
                            IN IF in_place THEN SaveInPlace(s1, k, fields)
                               ELSE SaveSameId(s1, k, fields)
               ELSE print_warning(s, "NOT_IN_WIKIPEDIA", link)

action_fix_link_in_place(s, identifier_and_link, exists) ==
    FixWith(s, identifier_and_link, exists, TRUE)

action_fix_link_same_id(s, identifier_and_link, exists) ==
    FixWith(s, identifier_and_link, exists, FALSE)

action_fix_link(s, identifier_and_link, exists) ==
    LET spaces == {i \in DOMAIN identifier_and_link : identifier_and_link[i] = " "}
    IN IF spaces = {}
       THEN \* identifier, link = [one value]
            Raise(s, "ValueError")
       ELSE LET i == CHOOSE k \in spaces : \A j \in spaces : k <= j
                identifier == SubSeq(identifier_and_link, 1, i - 1)
                link == normalize_link(From(identifier_and_link, i))
            IN IF ~IsInt(identifier)
               THEN Raise(s, "ValueError")
               ELSE IF validate_link(link, exists)
               THEN LET s1 == Accepted(s, link)
                        found == get_annotation(s1, StrToInt(identifier))
                    IN IF found = {}
                       THEN Raise(s1, "NotFound")
                       ELSE LET old_annotation == s1.store[CHOOSE k \in found : TRUE]
                                new_annotation == create_link(s1, link, old_annotation)
                            IN save_annotation(
                                   s1, LinkAnnotation(JoinFields(new_annotation)))
               ELSE print_warning(s, "NOT_IN_WIKIPEDIA", link)

action_set_context(s, context_size_str) ==
    IF IsInt(context_size_str)
    THEN [s EXCEPT !.context_size = StrToInt(context_size_str)]
    ELSE print_warning(s, "CONTEXT_SIZE_NOT_INTEGER", <<>>)

\* Reads the store and prints; changes nothing.
action_print_annotations(s) == s

\* Copies the annotations file and prints the help file; the copy and the
\* terminal are outside this state.
action_backup(s) == s
print_help(s) == s

----------------------------------------------------------------------------
(* main.py, Annotator.loop: one pass of the while loop for the action that *)
(* input(...).strip() returned.                                            *)

\* Mutant: an action that is no command is taken as a request for the next
\* entity.
loop_body_lenient(s, action, exists) ==
    IF action \in {<<"q">>, <<"q", "u", "i", "t">>, <<"e", "x", "i", "t">>}
    THEN [s EXCEPT !.pc = "quit"]
    ELSE IF action \in {<<"?">>, <<"h">>, <<"h", "e", "l", "p">>}
    THEN print_help(s)
    ELSE IF action \in {<<"s">>, <<"s", "t", "a", "t", "u", "s">>}
    THEN status(s)
    ELSE IF action \in {<<"b">>, <<"b", "a", "c", "k", "u", "p">>}
    THEN action_backup(s)
    ELSE IF action = <<"a">> \/ StartsWith(action, <<"a", " ">>)
    THEN action_print_annotations(s)
    ELSE IF action = <<"y">>
    THEN action_accept_hint(s)
    ELSE IF StartsWith(action, <<"f", " ">>)
    THEN action_fix_link(s, From(action, 2), exists)
    ELSE IF StartsWith(action, <<"c", " ">>)
    THEN action_set_context(s, From(action, 2))
    ELSE IF action = <<"l">> \/ StartsWith(action, <<"l", " ">>)
    THEN action_store_link(
             s, IF action = <<"l">> THEN <<"-">> ELSE Strip(From(action, 2)), exists)
    ELSE action_print_next(s)

loop_body(s, action, exists) ==
    IF action \in {<<"q">>, <<"q", "u", "i", "t">>, <<"e", "x", "i", "t">>}
    THEN [s EXCEPT !.pc = "quit"]
    ELSE IF action \in {<<"?">>, <<"h">>, <<"h", "e", "l", "p">>}
    THEN print_help(s)
    ELSE IF action \in {<<"s">>, <<"s", "t", "a", "t", "u", "s">>}
    THEN status(s)
    ELSE IF action \in {<<"b">>, <<"b", "a", "c", "k", "u", "p">>}
    THEN action_backup(s)
    ELSE IF action \in {<<>>, <<"n">>}
    THEN action_print_next(s)
    ELSE IF action = <<"a">>
    THEN action_print_annotations(s)
    ELSE IF action = <<"y">>
    THEN action_accept_hint(s)
    ELSE IF StartsWith(action, <<"f", " ">>)
    THEN action_fix_link(s, From(action, 2), exists)
    ELSE IF StartsWith(action, <<"a", " ">>)
    THEN action_print_annotations(s)
    ELSE IF StartsWith(action, <<"c", " ">>)
    THEN action_set_context(s, From(action, 2))
    ELSE IF action = <<"l">> \/ StartsWith(action, <<"l", " ">>)
    THEN action_store_link(
             s, IF action = <<"l">> THEN <<"-">> ELSE Strip(From(action, 2)), exists)
    ELSE print_warning(s, "UNKNOWN_COMMAND", <<>>)

----------------------------------------------------------------------------
(* The start: Annotator(Corpus(ENTITIES, SOURCES), config.ANNOTATIONS)     *)

\* config.CONTEXT_SIZE as the program starts.
DefaultContextSize == 50

\* The links of the records an annotations file can hold at the start.
InitLinks == {EmptyLink, WikiJL}

\* The dictionaries a file can hold: the first texts of Texts, each
\* annotated with one of the links or not yet.
Dicts(links) ==
    UNION {[{Texts[i] : i \in 1..n} -> {None} \cup {Some(l) : l \in links}] :
               n \in 0..Len(Texts)}

\* The records of the annotations file for the entity types that are
\* annotated, in the order of the traversal.
RECURSIVE InitStore(_, _)
InitStore(d, n) ==
    IF n = 0 THEN <<>>
    ELSE LET st == InitStore(d, n - 1)
             e == Slot(n)
         IN IF e \in EntityTypes(d) /\ d[e[1]][e[2]] # None
            THEN Append(st, [id |-> NextId(st), file |-> e[1], text |-> e[2],
                             link |-> d[e[1]][e[2]][1]])
            ELSE st

InitWith(d) ==
    /\ data = d
    /\ cursor = 0
    /\ store = InitStore(d, NumSlots(d))
    /\ next_entity = None
    /\ link_suggestion = None
    /\ context_size = DefaultContextSize
    /\ out = Quiet
    /\ visited = <<>>
    /\ todo0 = Outstanding(d, InitStore(d, NumSlots(d)))
    /\ validated = {store[k].link : k \in DOMAIN store}

Init ==
    /\ \E d \in [Files -> Dicts(InitLinks)] :
           Cardinality(EntityTypes(d)) <= MaxTypes /\ InitWith(d)
    /\ pc = "start"

----------------------------------------------------------------------------
(* The steps of loop() *)

\* The first pass of the loop: self.action is None, status() is printed.
Startup ==
    /\ pc = "start"
    /\ LET r == status([Cur EXCEPT !.out = Quiet])
       IN Becomes(IF r.pc = "crashed" THEN r ELSE [r EXCEPT !.pc = "running"])

\* The number of correction records is capped by MaxFix.
WithinBounds(r) == Len(r.store) <= Cardinality(EntityTypes(data)) + MaxFix

\* A later pass: the user typed input.
Command(input, exists) ==
    /\ pc = "running"
    /\ LET r == loop_body([Cur EXCEPT !.out = Quiet], Strip(input), exists)
       IN WithinBounds(r) /\ Becomes(r)

Quit ==
    /\ pc = "running"
    /\ \E input \in {<<"q">>} : Command(input, TRUE)

Help ==
    /\ pc = "running"
    /\ \E input \in {<<"h">>} : Command(input, TRUE)

Status ==
    /\ pc = "running"
    /\ \E input \in {<<"s">>} : Command(input, TRUE)

Backup ==
    /\ pc = "running"
    /\ \E input \in {<<"b">>} : Command(input, TRUE)

NextEntity ==
    /\ pc = "running"
    /\ \E input \in {<<>>, <<"n">>} : Command(input, TRUE)

ListAnnotations ==
    /\ pc = "running"
    /\ \E input \in {<<"a">>, <<"a", " ", "J">>} : Command(input, TRUE)

AcceptSuggestion ==
    /\ pc = "running"
    /\ Command(<<"y">>, TRUE)

StoreInputs == {<<"l">>} \cup {<<"l", " ">> \o raw : raw \in RawLinks \ {<<"-">>}}

StoreLink ==
    /\ pc = "running"
    /\ \E input \in StoreInputs, exists \in BOOLEAN : Command(input, exists)

\* What the user can type after "f ": no link part, an identifier that is
\* no integer, one that no record has, and well-formed corrections.
FixArgs ==
    {<<"1">>, <<"x", " ", "-">>, <<"9", " ", "-">>,
     <<"1", " ", "J", " ", "L">>, <<"2", " ", "-">>}

FixLink ==
    /\ pc = "running"
    /\ \E arg \in FixArgs, exists \in BOOLEAN : Command(<<"f", " ">> \o arg, exists)

ContextArgs == {<<"0">>, <<"-", "5">>, <<"x">>}

SetContext ==
    /\ pc = "running"
    /\ \E arg \in ContextArgs : Command(<<"c", " ">> \o arg, TRUE)

UnknownInputs == {<<"x">>, <<"f">>, <<"c">>, <<"l", "-">>}

Unknown ==
    /\ pc = "running"
    /\ \E input \in UnknownInputs : Command(input, TRUE)

Next ==
    \/ Startup
    \/ Quit
    \/ Help
    \/ Status
    \/ Backup
    \/ NextEntity
    \/ ListAnnotations
    \/ AcceptSuggestion
    \/ StoreLink
    \/ FixLink
    \/ Unknown

Spec == Init /\ [][Next]_vars

----------------------------------------------------------------------------
(* The same program started on larger corpora whose annotations file holds *)
(* any of the links, with a user who only takes annotation decisions: the  *)
(* next entity, the suggestion accepted, a link stored or refused.         *)

AllLinks == {EmptyLink, WikiJL, OtherURL}

InitAnnotate ==
    /\ \E d \in [Files -> Dicts(AllLinks)] :
           Cardinality(EntityTypes(d)) <= WideTypes /\ InitWith(d)
    /\ pc = "start"

NextAnnotate ==
    \/ Startup
    \/ NextEntity
    \/ AcceptSuggestion
    \/ StoreLink

SpecAnnotate == InitAnnotate /\ [][NextAnnotate]_vars

----------------------------------------------------------------------------
(* The program with every command, the context size among them, started on *)
(* corpora that have no annotation yet (an empty annotations file).        *)

InitContext ==
    /\ \E d \in [Files -> Dicts({})] :
           Cardinality(EntityTypes(d)) <= MaxTypes /\ InitWith(d)
    /\ pc = "start"

NextContext ==
    \/ Next
    \/ SetContext

SpecContext == InitContext /\ [][NextContext]_vars

----------------------------------------------------------------------------
(* The program on the corpora of at most one entity type, with a user who  *)
(* types any short string as a link: in a store command while an entity is *)
(* shown, and in one correction of the first record.                       *)

\* The characters of a typed link: the dash, the space, a letter of a title
\* and the Wikipedia prefix.
LinkChars == {"-", " ", "J", "W"}

LinkStrings == UNION {[1..n -> LinkChars] : n \in 0..MaxLen}

InitTyped ==
    /\ \E d \in [Files -> Dicts(InitLinks)] :
           Cardinality(EntityTypes(d)) <= 1 /\ InitWith(d)
    /\ pc = "start"

StoreTyped ==
    /\ pc = "running"
    /\ next_entity # None
    /\ \E raw \in LinkStrings, exists \in BOOLEAN :
           Command(<<"l", " ">> \o raw, exists)

FixTyped ==
    /\ pc = "running"
    /\ Len(store) = 1
    /\ \E raw \in LinkStrings : Command(<<"f", " ", "1", " ">> \o raw, TRUE)

NextTyped ==
    \/ Startup
    \/ NextEntity
    \/ StoreTyped
    \/ FixTyped

SpecTyped == InitTyped /\ [][NextTyped]_vars

----------------------------------------------------------------------------
(* The claims *)

\* The argument of a fix command, as the claims read it.
FirstSpace(arg) == CHOOSE k \in DOMAIN arg : arg[k] = " " /\ \A j \in 1..(k - 1) : arg[j] # " "
HasLinkPart(arg) == \E k \in DOMAIN arg : arg[k] = " "
IdPart(arg) == SubSeq(arg, 1, FirstSpace(arg) - 1)
LinkPart(arg) == SubSeq(arg, FirstSpace(arg) + 1, Len(arg))
StoreIds == {store[k].id : k \in DOMAIN store}

Malformed(arg) ==
    \/ ~HasLinkPart(arg)
    \/ ~IsInt(IdPart(arg))
    \/ StrToInt(IdPart(arg)) \notin StoreIds

\* The state after one pass of the loop for the input.
After(input, exists) == loop_body([Cur EXCEPT !.out = Quiet], Strip(input), exists)

\* C1: accept-suggestion with an entity current and no suggestion leaves the
\* current entity, the cursor and the store as they were.
C1_NoSuggestionKeepsEntity ==
    [][(pc = "running" /\ next_entity # None /\ link_suggestion = None
            /\ AcceptSuggestion)
        => (next_entity' = next_entity /\ cursor' = cursor /\ store' = store)]_vars

\* C2: a fix command with a malformed argument leaves the loop running and
\* the store unchanged, and does not report the not-in-Wikipedia warning.
C2_MalformedFixRecovered ==
    [][\A arg \in FixArgs, exists \in BOOLEAN :
           (Malformed(arg) /\ Command(<<"f", " ">> \o arg, exists))
           => (pc' = "running" /\ store' = store
               /\ out'.warning # "NOT_IN_WIKIPEDIA")]_vars

\* C3: the loop never ends by using the terminal signal of the traversal as
\* an entity.
C3_TerminalSignalNoCrash ==
    ~(pc = "crashed" /\ out.exc = "TerminalSignal")

\* The records saved since the program started.
SessionRecords == Len(store) - Cardinality(EntityTypes(data) \ todo0)

\* The link a store command hands to action_store_link.
StoreArg(input) == IF Len(input) <= 2 THEN <<"-">> ELSE From(input, 2)

\* C4: every record in the store carries a link that validate_link accepted
\* before the record was saved; a store or fix command whose link
\* validate_link refuses leaves the store unchanged and its warning names
\* the refused link.
C4_RecordsValidated ==
    /\ [](\A k \in DOMAIN store : store[k].link \in validated)
    /\ [][/\ \A input \in StoreInputs :
                (/\ next_entity # None
                 /\ normalize_link(StoreArg(input)) # EmptyLink
                 /\ Command(input, FALSE))
                => (/\ store' = store
                    /\ out'.warning = "NOT_IN_WIKIPEDIA"
                    /\ out'.link = normalize_link(StoreArg(input)))
           /\ \A arg \in FixArgs :
                (/\ HasLinkPart(arg) /\ IsInt(IdPart(arg))
                 /\ normalize_link(LinkPart(arg)) # EmptyLink
                 /\ Command(<<"f", " ">> \o arg, FALSE))
                => (/\ store' = store
                    /\ out'.warning = "NOT_IN_WIKIPEDIA"
                    /\ out'.link = normalize_link(LinkPart(arg)))]_vars

\* A record was saved in this session and a later link was refused.
C4_Witness ==
    /\ SessionRecords > 0
    /\ out.warning = "NOT_IN_WIKIPEDIA"
    /\ out.link = WikiJL

\* C5: accept-suggestion and store-link with no current entity only warn:
\* the store, the cursor, the current entity, the suggestion, the links of
\* the corpus and the set of links validated stay as they were.
C5_NoEntityOnlyWarns ==
    [][(pc = "running" /\ next_entity = None /\ (AcceptSuggestion \/ StoreLink))
        => (/\ out'.warning = "NO_ENTITY"
            /\ pc' = "running"
            /\ store' = store /\ cursor' = cursor /\ data' = data
            /\ next_entity' = next_entity /\ link_suggestion' = link_suggestion
            /\ validated' = validated /\ visited' = visited)]_vars

\* The warning was given while entity types were still outstanding.
C5_Witness ==
    /\ pc = "running"
    /\ next_entity = None
    /\ out.warning = "NO_ENTITY"
    /\ todo0 # {}

IsPrefix(a, b) == Len(a) <= Len(b) /\ SubSeq(b, 1, Len(a)) = a

\* The number of records that correct an earlier record of their entity type.
Corrections == Len(store) - Cardinality({<<store[k].file, store[k].text>> : k \in DOMAIN store})

\* C6: every step leaves the records saved before it in place, as a prefix
\* of the store; and in every state of the running loop a well-formed fix
\* command with a valid link appends exactly one record, a copy of the
\* corrected one with the new link, and the corrected record stays.
C6_AppendOnly ==
    /\ [][IsPrefix(store, store')]_vars
    /\ [](pc = "running" =>
            \A arg \in FixArgs :
                ~Malformed(arg) =>
                    LET r == After(<<"f", " ">> \o arg, TRUE)
                        old == store[CHOOSE k \in DOMAIN store :
                                         store[k].id = StrToInt(IdPart(arg))]
                        new == r.store[Len(r.store)]
                    IN /\ Len(r.store) = Len(store) + 1
                       /\ IsPrefix(store, r.store)
                       /\ new.file = old.file /\ new.text = old.text
                       /\ new.link = normalize_link(LinkPart(arg))
                       /\ \E k \in 1..Len(store) : r.store[k] = old)

\* A correction was appended and the loop goes on.
C6_Witness ==
    /\ pc = "running"
    /\ Corrections > 0
    /\ out = Quiet

\* C7: no two records of the store have the same identifier.
C7_UniqueIdentifiers ==
    \A i, j \in DOMAIN store : i # j => store[i].id # store[j].id

\* Records of this session, one of them a correction, beside older ones.
C7_Witness ==
    /\ Corrections > 0
    /\ SessionRecords >= 2
    /\ Len(store) >= 3

\* C8: the entity types shown are outstanding ones, none is shown twice, and
\* when the terminal signal appears each of the N - M entity types that
\* were outstanding at the start has been shown.
C8_TraversalComplete ==
    /\ \A i, j \in DOMAIN visited : i # j => visited[i] # visited[j]
    /\ Range(visited) \subseteq todo0
    /\ Cardinality(todo0) + Cardinality(EntityTypes(data) \ todo0)
           = Cardinality(EntityTypes(data))
    /\ out.exc = "TerminalSignal" =>
           /\ Range(visited) = todo0
           /\ Len(visited) = Cardinality(EntityTypes(data))
                                 - Cardinality(EntityTypes(data) \ todo0)

\* The terminal signal appeared after two entity types were shown, with
\* two more annotated before the start, a record saved and a link refused.
C8_Witness ==
    /\ out.exc = "TerminalSignal"
    /\ out.warning = "NOT_IN_WIKIPEDIA"
    /\ Len(visited) = 2
    /\ Cardinality(EntityTypes(data) \ todo0) = 2
    /\ SessionRecords > 0

\* C9: status() never fails with a division error, and with every entity
\* type annotated it reports 100 percent.
C9_StatusNeverDivides ==
    /\ out.exc # "ZeroDivisionError"
    /\ (out.percent # -1 /\ \A f \in DOMAIN data : \A t \in DOMAIN data[f] : data[f][t] # None)
           => out.percent = 100

\* The files that hold a link (not None) for the text, and among them the
\* ones that hold the link l.
Holders(d, t) == {f \in DOMAIN d : t \in DOMAIN d[f] /\ d[f][t] # None}
HoldersOf(d, t, l) == {f \in Holders(d, t) : d[f][t] = Some(l)}
FirstFile(S) == CHOOSE f \in S : \A g \in S : f <= g

\* What the claim says of the value r of suggest(t).
SuggestOK(d, t, r) ==
    IF Holders(d, t) = {} THEN r = None
    ELSE /\ r # None
         /\ HoldersOf(d, t, r[1]) # {}
         /\ \A f \in Holders(d, t) :
                LET l == d[f][t][1]
                IN \/ l = r[1]
                   \/ Cardinality(HoldersOf(d, t, l)) < Cardinality(HoldersOf(d, t, r[1]))
                   \/ /\ Cardinality(HoldersOf(d, t, l)) = Cardinality(HoldersOf(d, t, r[1]))
                      /\ FirstFile(HoldersOf(d, t, r[1])) < FirstFile(HoldersOf(d, t, l))
         /\ \A f \in Holders(d, t) :
                (\A g \in Holders(d, t) : d[g][t] = d[f][t]) => r = d[f][t]

\* C10: suggest_link(text) is None when no file holds a link for the text;
\* otherwise it is a link that the most files hold for the text and, among
\* such links, the one met first in the order of the files; it is the one
\* link when all holders agree.  The suggestion shown with the current
\* entity is that value.
C10_SuggestMostFrequent ==
    /\ \A t \in Range(Texts) : SuggestOK(data, t, suggest_link(data, t))
    /\ (pc = "running" /\ next_entity # None)
           => SuggestOK(data, next_entity[1][2], link_suggestion)

\* Three files hold links for one text, the first file a link that only it
\* holds: the suggestion is the link of the other two; and the current
\* entity is shown with the suggestion of a file that holds its text.
C10_Witness ==
    /\ \E t \in Range(Texts) :
           /\ Cardinality(Holders(data, t)) = 3
           /\ suggest_link(data, t) # data[FirstFile(Holders(data, t))][t]
    /\ pc = "running" /\ next_entity # None /\ link_suggestion # None

\* The text has links in the corpus and every one is the empty link.
SentinelOnly(d, t) ==
    Holders(d, t) # {} /\ \A f \in Holders(d, t) : d[f][t] = Some(EmptyLink)

\* C11: after 'l' with no argument stored the empty link for the current
\* entity and the next entity is shown, with only empty links recorded for
\* the text of the entity that was stored, suggest_link of
\* that text is None; and accept-suggestion for an entity whose text has
\* only empty links recorded warns that there is no suggestion and adds no
\* record.
C11_SentinelNeverSuggested ==
    [][/\ (/\ pc = "running" /\ next_entity # None
           /\ Command(<<"l">>, TRUE) /\ pc' = "running")
            => LET t == next_entity[1][2]
               IN SentinelOnly(data', t) => suggest_link(data', t) = None
       /\ (/\ pc = "running" /\ next_entity # None
           /\ SentinelOnly(data, next_entity[1][2])
           /\ AcceptSuggestion)
            => (store' = store /\ out'.warning = "NO_LINK_SUGGESTION")]_vars

\* C12: in every state with an entity current, a store command with a link
\* that is empty or exists appends exactly one record, for the current
\* entity, with the normalised link ("J L" gives the Wikipedia URL of J_L);
\* the entity holds that link, and when no other link is recorded for its
\* text suggest_link of the text is that link, also as the suggestion of the
\* entity shown next.
C12_StoreAddsNormalized ==
    (pc = "running" /\ next_entity # None) =>
        \A input \in StoreInputs, exists \in BOOLEAN :
            (normalize_link(StoreArg(input)) = EmptyLink \/ exists) =>
                LET r == After(input, exists)
                    e == next_entity[1]
                    link == normalize_link(StoreArg(input))
                    new == r.store[Len(r.store)]
                    alone == \A f \in Holders(r.data, e[2]) : r.data[f][e[2]] = Some(link)
                IN /\ Len(r.store) = Len(store) + 1
                   /\ SubSeq(r.store, 1, Len(store)) = store
                   /\ new.file = e[1] /\ new.text = e[2] /\ new.link = link
                   /\ input = <<"l", " ", "J", " ", "L">> => new.link = WikiJL
                   /\ r.data[e[1]][e[2]] = Some(link)
                   /\ alone => suggest_link(r.data, e[2]) = Some(link)
                   /\ (alone /\ r.pc = "running" /\ r.next_entity[1][2] = e[2])
                          => r.link_suggestion = Some(link)

\* The first mention of a text was stored with the Wikipedia link, the one
\* record of the store, and the second mention is shown with that link as
\* the suggestion.
C12_Witness ==
    /\ pc = "running" /\ next_entity # None
    /\ Len(visited) = 2 /\ visited[1][2] = visited[2][2]
    /\ Len(store) = 1 /\ store[1].link = WikiJL
    /\ store[1].file = visited[1][1] /\ store[1].text = visited[1][2]
    /\ link_suggestion = Some(WikiJL)

\* What the next request for an entity returns.
NextShown == CorpusNext(Cur)

\* The state r has the cursor, the current entity, the suggestion, the store
\* and the links of this state, and the same next entity.
Undisturbed(r) ==
    /\ r.cursor = cursor /\ r.next_entity = next_entity
    /\ r.link_suggestion = link_suggestion
    /\ r.store = store /\ r.data = data
    /\ CorpusNext(r) = NextShown

\* C13: status(), at the start and as a command in any state of the running
\* loop, leaves the cursor, the current entity, the suggestion, the store
\* and the links of the corpus unchanged, and the next request for an entity
\* returns what it would have returned before; the step that shows the next
\* entity, in which suggest_link is called, changes neither the store nor
\* the links, and leaves the cursor and the current entity as Corpus.next()
\* set them.
C13_StatusSuggestReadOnly ==
    /\ pc = "start" => Undisturbed(status([Cur EXCEPT !.out = Quiet]))
    /\ pc = "running" => Undisturbed(After(<<"s">>, TRUE))
    /\ pc = "running" =>
           LET r == After(<<"n">>, TRUE)
           IN r.pc = "running" =>
                  /\ r.store = store /\ r.data = data
                  /\ r.cursor = NextShown.cursor
                  /\ r.next_entity = Some(NextShown.entity)
                  /\ r.link_suggestion = suggest_link(data, NextShown.entity[2])

\* status() was printed while an entity was current and another entity type
\* was ahead.
C13_Witness ==
    /\ pc = "running" /\ out.percent # -1
    /\ next_entity # None
    /\ NextShown.found

\* C14: the context size is never negative.
C14_ContextNeverNegative ==
    context_size >= 0

\* The commands, as the claim lists them.
Recognised(action) ==
    \/ action \in {<<"q">>, <<"q", "u", "i", "t">>, <<"e", "x", "i", "t">>,
                   <<"?">>, <<"h">>, <<"h", "e", "l", "p">>,
                   <<"s">>, <<"s", "t", "a", "t", "u", "s">>,
                   <<"b">>, <<"b", "a", "c", "k", "u", "p">>,
                   <<>>, <<"n">>, <<"a">>, <<"y">>, <<"l">>}
    \/ /\ Len(action) >= 2 /\ action[2] = " "
       /\ action[1] \in {"f", "a", "c", "l"}

\* C17: in every state of the running loop an input that is none of the
\* commands gives the unknown-command warning and nothing else: the store,
\* the cursor, the current entity, the suggestion, the context size and the
\* links of the corpus stay as they are and the loop keeps running.
C17_UnknownOnlyWarns ==
    pc = "running" =>
        \A input \in UnknownInputs \cup StoreInputs \cup {<<"y">>, <<"n">>, <<"s">>},
           exists \in BOOLEAN :
            ~Recognised(Strip(input)) =>
                LET r == After(input, exists)
                IN /\ r.out.warning = "UNKNOWN_COMMAND" /\ r.out.exc = ""
                   /\ r.pc = "running"
                   /\ r.store = store /\ r.cursor = cursor /\ r.data = data
                   /\ r.next_entity = next_entity
                   /\ r.link_suggestion = link_suggestion
                   /\ r.context_size = context_size
                   /\ r.visited = visited /\ r.validated = validated

\* The warning was given with an entity current, a record saved and the
\* context size set by the user.
C17_Witness ==
    /\ pc = "running" /\ out.warning = "UNKNOWN_COMMAND"
    /\ next_entity # None /\ Len(store) > 0
    /\ context_size = 0

\* The commands that ask for the next entity.
Advancing ==
    \/ NextEntity
    \/ next_entity # None /\ (AcceptSuggestion \/ StoreLink)

\* The inputs that ask for the next entity in the current state, and the
\* other inputs of the user.
AdvancingInputs ==
    {<<>>, <<"n">>} \cup (IF next_entity # None THEN {<<"y">>} \cup StoreInputs ELSE {})

OtherInputs ==
    ({<<"q">>, <<"h">>, <<"s">>, <<"b">>, <<"a">>, <<"a", " ", "J">>, <<"y">>}
         \cup StoreInputs \cup UnknownInputs
         \cup {<<"f", " ">> \o arg : arg \in FixArgs}
         \cup {<<"c", " ">> \o arg : arg \in ContextArgs})
    \ AdvancingInputs

\* The cursor moved once: to the first outstanding entity type after it,
\* which is shown; or, with none left, the loop ended on the terminal signal.
MovedOnce(r) ==
    \/ /\ r.pc = "crashed" /\ r.out.exc = "TerminalSignal"
       /\ r.cursor = cursor /\ r.visited = visited
    \/ /\ r.pc = "running"
       /\ r.cursor > cursor
       /\ r.visited = Append(visited, Slot(r.cursor))
       /\ r.next_entity = Some(Slot(r.cursor))
       /\ Slot(r.cursor) \in Outstanding(r.data, store)
       /\ \A i \in (cursor + 1)..(r.cursor - 1) :
              Slot(i) \notin Outstanding(r.data, r.store)

\* C19: in every state of the running loop, a next-entity command, and
\* accept-suggestion or store-link with an entity current (a record saved or
\* not), moves the cursor once: to the first outstanding entity type after
\* it, which is shown, or, with none left, not at all as the loop ends on
\* the terminal signal.  Every other command (status, help, backup, the
\* list of annotations, a correction, the context size, an unknown input,
\* quit, accept-suggestion and store-link with no entity current) leaves the
\* cursor, the entity types shown and the current entity as they are.
C19_CursorAdvancesOnce ==
    pc = "running" =>
        \A exists \in BOOLEAN :
            /\ \A input \in AdvancingInputs : MovedOnce(After(input, exists))
            /\ \A input \in OtherInputs :
                   LET r == After(input, exists)
                   IN /\ r.cursor = cursor /\ r.visited = visited
                      /\ r.next_entity = next_entity

\* A store command whose link was refused moved the cursor to the second
\* entity type, with no record saved.
C19_Witness ==
    /\ pc = "running" /\ out.warning = "NOT_IN_WIKIPEDIA"
    /\ Len(visited) = 2 /\ cursor > 1
    /\ store = <<>>

\* normalize_link applied twice gives what it gives applied once, for every
\* typed link: the dash, the empty string, titles with and without spaces,
\* and URLs.
NormalizeIdempotent ==
    \A x \in LinkStrings : normalize_link(normalize_link(x)) = normalize_link(x)

\* C15: normalize_link is idempotent on the typed links, and every link of
\* the store, normalised by the handler and for a store command again by
\* add_link, is the value the handler gave to validate_link and is left
\* alone by one more normalisation; so is the link a warning names.
C15_NormalizeIdempotent ==
    /\ NormalizeIdempotent
    /\ \A k \in DOMAIN store :
           /\ store[k].link \in validated
           /\ normalize_link(store[k].link) = store[k].link
    /\ \A l \in validated : normalize_link(l) = l
    /\ normalize_link(out.link) = out.link

\* The record of the annotations file was corrected with a title typed
\* with a space between two letters.
C15_Witness ==
    /\ pc = "running"
    /\ Len(store) = 2 /\ store[1].link = WikiJL
    /\ store[2].link = <<"W", "J", "_", "J">>
    /\ store[2].text = store[1].text

\* Typed links the claim is read on: the dash, a title, a URL and a title
\* with a space.
Probes == {<<"-">>, <<"J">>, <<"W", "J">>, <<"J", " ", "J">>}

\* validate_link on every normalised typed link and either answer.
ValidateOnLinks ==
    \A x \in LinkStrings, exists \in BOOLEAN :
        validate_link(normalize_link(x), exists)
            = (normalize_link(x) = EmptyLink \/ exists)

\* C16: validate_link is true for the empty link whatever the request would
\* answer, and for any other link it is what the request answers; so a store
\* command for the entity shown saves a record exactly when the normalised
\* link is empty or the request answers 200, and otherwise names the link in
\* the warning; a correction whose link is empty or exists saves a record.
C16_ValidateContract ==
    /\ []ValidateOnLinks
    /\ [][\A raw \in Probes :
              LET saved == /\ Len(store') = Len(store) + 1
                           /\ store'[Len(store')].link = normalize_link(raw)
                           /\ out'.warning = ""
                  refused == /\ store' = store
                             /\ out'.warning = "NOT_IN_WIKIPEDIA"
                             /\ out'.link = normalize_link(raw)
              IN /\ \A exists \in BOOLEAN :
                      (next_entity # None /\ Command(<<"l", " ">> \o raw, exists))
                      => IF normalize_link(raw) = EmptyLink \/ exists
                         THEN saved ELSE refused
                 /\ (Len(store) = 1 /\ Command(<<"f", " ", "1", " ">> \o raw, TRUE))
                      => saved]_vars

\* A store command with a URL that does not exist was refused: no record,
\* the warning names the URL.
C16_Witness ==
    /\ Len(visited) = 1 /\ store = <<>>
    /\ out.warning = "NOT_IN_WIKIPEDIA" /\ out.link = <<"W", "J">>

\* C18: while the loop has not ended on an exception, there is a suggestion
\* only if there is a current entity, and the suggestion is what
\* suggest_link gives for the text of the current entity; the current entity
\* and the suggestion change only in a step that shows the next entity,
\* which sets both, the suggestion to suggest_link of the text shown.
C18_SuggestionWithEntity ==
    /\ [](pc # "crashed" =>
            /\ link_suggestion # None => next_entity # None
            /\ next_entity # None
                   => link_suggestion = suggest_link(data, next_entity[1][2]))
    /\ [][(/\ pc' # "crashed"
           /\ (next_entity' # next_entity \/ link_suggestion' # link_suggestion))
          => (/\ Advancing
              /\ Len(visited') = Len(visited) + 1
              /\ next_entity' = Some(visited'[Len(visited')])
              /\ link_suggestion' = suggest_link(data', visited'[Len(visited')][2]))]_vars

\* The second entity shown has the text of the first, which was stored with
\* the empty link: the empty link is its suggestion.
C18_Witness ==
    /\ pc = "running" /\ next_entity # None
    /\ Len(visited) = 2 /\ visited[1][2] = next_entity[1][2]
    /\ SessionRecords = 1
    /\ link_suggestion = Some(EmptyLink)

====
